---- MODULE Spec2Model ----
(***************************************************************************)
(* Score API of the asteroids backend: the Score table (api/src/db.py),    *)
(* add_new_entry / get_scores_for, the HTTP handler handle_score_request   *)
(* (api/src/api.py) and the db-add command line.                           *)
(*                                                                         *)
(* The table is the sequence of rows in the order the database inserted    *)
(* them; each row carries the flag `committed` (a row a transaction has    *)
(* flushed but not yet committed is in the table and invisible to other    *)
(* sessions).  Spec runs whole requests one after the other; SpecConc      *)
(* interleaves the requests of several sessions at the statements of       *)
(* add_new_entry and get_scores_for.                                       *)
(***************************************************************************)
EXTENDS Integers, Sequences, FiniteSets, TLC

VARIABLES
    store,      \* the Score table: rows in insertion order
    last,       \* the last request handled in sequence, with its response
    pre,        \* the table as it was when that request arrived
    calls,      \* per token, the (name, score) of every add_new_entry call so far
    lastGet,    \* per token, the GET response since the last successful write
                \* (again: it was not the first such GET)
    pc,         \* per session: the statement it is at
    req,        \* per session: the request it is handling
    newScore,   \* per session: the Score object of add_new_entry
    session,    \* per session: the objects added and not yet flushed
    txn,        \* per session: the row its open transaction inserted (0: none)
    status,     \* per session: status_code of handle_score_request
    resp        \* per session: the rows its last query returned

vars ==
    <<store, last, pre, calls, lastGet, pc, req, newScore, session, txn, status,
      resp>>
seqVars == <<last, pre, calls, lastGet>>
concVars == <<pc, req, newScore, session, txn, status, resp>>

\* ------------------------------------------------------------------ bounds

\* Rows the table may hold before the model stops issuing writes.
MaxRecords == 2

Tokens == {"tok1", "tok2"}
Names == {"Ann", "Bea"}
Procs == {"p1", "p2", "p3"}

\* ------------------------------------------------- JSON values and int()

None == [kind |-> "none"]

JInt(n) == [kind |-> "int", n |-> n]
\* A JSON number with a fraction, held in tenths: JFloat(-55) is -5.5.
JFloat(t) == [kind |-> "float", tenths |-> t]
JStr(s) == [kind |-> "str", chars |-> s]
JNull == [kind |-> "null"]
JNaN == [kind |-> "nan"]
JInf == [kind |-> "inf"]

DigitChars == {"0", "5", "7"}
DigitVal(c) == CASE c = "0" -> 0 [] c = "5" -> 5 [] c = "7" -> 7

\* The score values a client posts.
ScoreValues ==
    { JInt(7), JFloat(-55), JStr(<<"7">>), JStr(<<" ", "-", "0", "_", "5", " ">>),
      JStr(<<"a", "b", "c">>), JStr(<<>>), JStr(<<"7", ".", "9">>), JNaN,
      JNull, JInf }

Ok(n) == [ok |-> TRUE, val |-> n, exc |-> "none"]
Raise(e) == [ok |-> FALSE, val |-> 0, exc |-> e]

RECURSIVE LStrip(_)
LStrip(s) == IF s # <<>> /\ s[1] = " " THEN LStrip(Tail(s)) ELSE s

RECURSIVE RStrip(_)
RStrip(s) ==
    IF s # <<>> /\ s[Len(s)] = " " THEN RStrip(SubSeq(s, 1, Len(s) - 1)) ELSE s

Strip(s) == RStrip(LStrip(s))

\* Digits with single underscores between them, as int() accepts.
IsDigits(s) ==
    /\ s # <<>>
    /\ s[1] \in DigitChars
    /\ s[Len(s)] \in DigitChars
    /\ \A i \in 1..Len(s) : s[i] \in DigitChars \cup {"_"}
    /\ \A i \in 1..(Len(s) - 1) : ~(s[i] = "_" /\ s[i + 1] = "_")

RECURSIVE DigitsValue(_, _)
DigitsValue(s, acc) ==
    IF s = <<>> THEN acc
    ELSE IF s[1] = "_" THEN DigitsValue(Tail(s), acc)
    ELSE DigitsValue(Tail(s), 10 * acc + DigitVal(s[1]))

\* int(str): surrounding whitespace dropped, one optional sign, then digits.
IntOfStr(s) ==
    LET t == Strip(s)
        signed == t # <<>> /\ t[1] \in {"+", "-"}
        digits == IF signed THEN Tail(t) ELSE t
    IN  IF ~IsDigits(digits) THEN Raise("ValueError")
        ELSE IF signed /\ t[1] = "-" THEN Ok(0 - DigitsValue(digits, 0))
        ELSE Ok(DigitsValue(digits, 0))

\* int(float): truncation towards zero.
IntOfFloat(t) == IF t >= 0 THEN Ok(t \div 10) ELSE Ok(0 - ((0 - t) \div 10))

\* Python's int(v) on a decoded JSON value.
PyInt(v) ==
    CASE v.kind = "int" -> Ok(v.n)
      [] v.kind = "float" -> IntOfFloat(v.tenths)
      [] v.kind = "str" -> IntOfStr(v.chars)
      [] v.kind = "nan" -> Raise("ValueError")
      [] v.kind = "inf" -> Raise("OverflowError")
      [] v.kind = "null" -> Raise("TypeError")

\* ----------------------------------------------------------- the table

\* class Score: a row; id is None until the database assigns it.
Score(id, token, name, score) ==
    [id |-> id, token |-> token, name |-> name, score |-> score,
     committed |-> FALSE]

\* The integer primary key the database gives the next inserted row.
NextId(st) == Len(st) + 1

\* Flush, had the session merged the object into a row of the same token
\* and name instead of inserting it.
FlushUpsert(st, obj) ==
    IF \E i \in DOMAIN st : st[i].token = obj.token /\ st[i].name = obj.name
    THEN LET i == CHOOSE i \in DOMAIN st :
                      st[i].token = obj.token /\ st[i].name = obj.name
         IN  [st EXCEPT ![i] = [obj EXCEPT !.id = st[i].id]]
    ELSE Append(st, [obj EXCEPT !.id = Len(st) + 1])

\* INSERT of a pending object: the row enters the table, uncommitted.
Flush(st, obj) == Append(st, [obj EXCEPT !.id = NextId(st)])

\* COMMIT of the transaction that inserted row number i.
Commit(st, i) == [st EXCEPT ![i].committed = TRUE]

\* add_new_entry, had it passed token and name to Score the wrong way round.
add_new_entry_swapped(st, token, name, score) ==
    LET flushed == Flush(st, Score(None, name, token, score))
    IN  Commit(flushed, Len(flushed))

\* add_new_entry run without interruption: Score(...), session.add, commit.
add_new_entry(st, token, name, score) ==
    LET flushed == Flush(st, Score(None, token, name, score))
    IN  Commit(flushed, Len(flushed))

\* The query, had it no filter_by.
QueryAllTokens(st, token) == SelectSeq(st, LAMBDA r : r.committed)

\* The query, had it read the rows of transactions still open.
QueryUncommitted(st, token) == SelectSeq(st, LAMBDA r : r.token = token)

\* Score.query.filter_by(token=token): the committed rows of the token,
\* in table order.
QueryByToken(st, token) ==
    SelectSeq(st, LAMBDA r : r.token = token /\ r.committed)

\* The dict get_scores_for builds from one row.
Entry(r) == [name |-> r.name, score |-> r.score]

\* get_scores_for on table st.
ScoresIn(st, token) ==
    LET rows == QueryByToken(st, token)
    IN  [i \in 1..Len(rows) |-> Entry(rows[i])]

get_scores_for(token) == ScoresIn(store, token)

\* ------------------------------------------------ requests, in sequence

\* The JSON bodies a client posts: both keys, or one of them missing.
Bodies ==
    {[name |-> n, score |-> v] : n \in Names, v \in ScoreValues}
        \cup {[name |-> "Ann"], [score |-> JInt(7)]}

\* The integer the db-add command line is given (click.INT).
CliScores == {7}

\* WriteStep, had the except clause not set status_code.
WriteStepKeepsStatus(st, token, data) ==
    IF "name" \notin DOMAIN data \/ "score" \notin DOMAIN data
    THEN [store |-> st, status |-> 200, exc |-> "KeyError"]
    ELSE LET r == PyInt(data.score)
         IN  IF r.ok
             THEN [store |-> add_new_entry(st, token, data.name, r.val),
                   status |-> 200, exc |-> "none"]
             ELSE IF r.exc = "ValueError"
             THEN [store |-> st, status |-> 200, exc |-> "none"]
             ELSE [store |-> st, status |-> 200, exc |-> r.exc]

\* What the try block of handle_score_request does with the body of a POST:
\* the table afterwards, status_code, and the exception that leaves the
\* handler ("none" when the handler goes on to the read).
WriteStep(st, token, data) ==
    IF "name" \notin DOMAIN data \/ "score" \notin DOMAIN data
    THEN [store |-> st, status |-> 200, exc |-> "KeyError"]
    ELSE LET r == PyInt(data.score)
         IN  IF r.ok
             THEN [store |-> add_new_entry(st, token, data.name, r.val),
                   status |-> 200, exc |-> "none"]
             ELSE IF r.exc = "ValueError"
             THEN [store |-> st, status |-> 500, exc |-> "none"]
             ELSE [store |-> st, status |-> 200, exc |-> r.exc]

\* Respond, had it answered 404 for a token without rows.
RespondNotFound(w, token) ==
    IF w.exc # "none"
    THEN [status |-> 500, json |-> FALSE, body |-> <<>>, exc |-> w.exc]
    ELSE IF ScoresIn(w.store, token) = <<>>
    THEN [status |-> 404, json |-> TRUE, body |-> <<>>, exc |-> "none"]
    ELSE [status |-> w.status, json |-> TRUE,
          body |-> ScoresIn(w.store, token), exc |-> "none"]

\* The response of handle_score_request once the write step is over: the
\* jsonified list with status_code, or the server's error page when an
\* exception left the handler.
Respond(w, token) ==
    IF w.exc = "none"
    THEN [status |-> w.status, json |-> TRUE,
          body |-> ScoresIn(w.store, token), exc |-> "none"]
    ELSE [status |-> 500, json |-> FALSE, body |-> <<>>, exc |-> w.exc]

\* handle_score_request, had it read the list before the write step.
ReadBeforeWrite(st, method, token, data) ==
    LET w == IF method = "POST" THEN WriteStep(st, token, data)
             ELSE [store |-> st, status |-> 200, exc |-> "none"]
    IN  [store |-> w.store,
         response |-> Respond([w EXCEPT !.store = st], token)]

\* handle_score_request, had the read removed the rows it returned.
ReadConsumes(st, method, token, data) ==
    LET w == IF method = "POST" THEN WriteStep(st, token, data)
             ELSE [store |-> st, status |-> 200, exc |-> "none"]
    IN  [store |-> SelectSeq(w.store, LAMBDA r : r.token # token),
         response |-> Respond(w, token)]

\* handle_score_request, the whole handler.
handle_score_request(st, method, token, data) ==
    LET w == IF method = "POST" THEN WriteStep(st, token, data)
             ELSE [store |-> st, status |-> 200, exc |-> "none"]
    IN  [store |-> w.store, response |-> Respond(w, token)]

\* No GET of the token since the last successful write.
NoGet == [seen |-> FALSE, again |-> FALSE, status |-> 0, body |-> <<>>]
NoGets == [t \in Tokens |-> NoGet]

Get(token) ==
    LET h == handle_score_request(store, "GET", token, None)
        r == h.response
    IN  /\ store' = h.store
        /\ pre' = store
        /\ last' = [op |-> "GET", token |-> token, data |-> None,
                    status |-> r.status, json |-> r.json, body |-> r.body,
                    exc |-> r.exc]
        /\ lastGet' = [lastGet EXCEPT
                          ![token] = [seen |-> TRUE, again |-> @.seen,
                                      status |-> r.status, body |-> r.body]]
        /\ UNCHANGED <<calls, concVars>>

Post(token, data) ==
    LET h == handle_score_request(store, "POST", token, data)
        r == h.response
        wrote == "name" \in DOMAIN data /\ "score" \in DOMAIN data
                    /\ PyInt(data.score).ok
    IN  /\ wrote => Len(store) < MaxRecords
        /\ store' = h.store
        /\ pre' = store
        /\ last' = [op |-> "POST", token |-> token, data |-> data,
                    status |-> r.status, json |-> r.json, body |-> r.body,
                    exc |-> r.exc]
        /\ calls' = IF wrote
                    THEN [calls EXCEPT ![token] =
                            Append(@, [name |-> data.name,
                                       score |-> PyInt(data.score).val])]
                    ELSE calls
        /\ lastGet' = IF wrote THEN NoGets ELSE lastGet
        /\ UNCHANGED concVars

\* db_add_command: add_new_entry, then the echo of line 76, whose f-string
\* names newScore, a local of add_new_entry: NameError.
db_add_command(st, token, name, score) ==
    [store |-> add_new_entry(st, token, name, score), exc |-> "NameError"]

DbAdd(token, name, score) ==
    LET c == db_add_command(store, token, name, score)
    IN  /\ Len(store) < MaxRecords
        /\ store' = c.store
        /\ pre' = store
        /\ last' = [op |-> "db-add", token |-> token,
                    data |-> [name |-> name, score |-> JInt(score)],
                    status |-> IF c.exc = "none" THEN 0 ELSE 1,
                    json |-> FALSE, body |-> <<>>, exc |-> c.exc]
        /\ calls' = [calls EXCEPT ![token] =
                        Append(@, [name |-> name, score |-> score])]
        /\ lastGet' = NoGets
        /\ UNCHANGED concVars

\* After db-init: the table exists and is empty; no session is in a request.
Init ==
    /\ store = <<>>
    /\ pre = <<>>
    /\ last = [op |-> "none", token |-> "tok1", data |-> None, status |-> 200,
               json |-> FALSE, body |-> <<>>, exc |-> "none"]
    /\ calls = [t \in Tokens |-> <<>>]
    /\ lastGet = NoGets
    /\ pc = [p \in Procs |-> "idle"]
    /\ req = [p \in Procs |-> None]
    /\ newScore = [p \in Procs |-> None]
    /\ session = [p \in Procs |-> <<>>]
    /\ txn = [p \in Procs |-> 0]
    /\ status = [p \in Procs |-> 200]
    /\ resp = [p \in Procs |-> <<>>]

Next ==
    \/ \E t \in Tokens : Get(t)
    \/ \E t \in Tokens, d \in Bodies : Post(t, d)
    \/ \E t \in Tokens, n \in Names, s \in CliScores : DbAdd(t, n, s)

Spec == Init /\ [][Next]_vars

\* ------------------------------------------- requests, several at a time

\* The bodies posted while other requests are in flight.
ConcBodies ==
    { [name |-> "Ann", score |-> JInt(7)],
      [name |-> "Bea", score |-> JStr(<<"a", "b", "c">>)],
      [name |-> "Bea", score |-> JNull] }

\* Writes that have been accepted and have not yet put their row in the table.
Unflushed == {q \in Procs : pc[q] \in {"create", "add", "flush"}}

\* A GET arrives: status_code = 200 and straight to the read.
StartGet(p, token) ==
    /\ pc[p] = "idle"
    /\ req' = [req EXCEPT ![p] = [method |-> "GET", token |-> token]]
    /\ status' = [status EXCEPT ![p] = 200]
    /\ resp' = [resp EXCEPT ![p] = <<>>]
    /\ pc' = [pc EXCEPT ![p] = "query"]
    /\ UNCHANGED <<store, newScore, session, txn, seqVars>>

\* A POST arrives: the arguments of the add_new_entry call are evaluated.
StartPost(p, token, data) ==
    LET r == PyInt(data.score)
    IN  /\ pc[p] = "idle"
        /\ r.ok => Len(store) + Cardinality(Unflushed) < MaxRecords
        /\ req' = [req EXCEPT ![p] =
                      [method |-> "POST", token |-> token, name |-> data.name,
                       score |-> r.val]]
        /\ status' = [status EXCEPT ![p] =
                         IF r.exc = "ValueError" THEN 500 ELSE 200]
        /\ resp' = [resp EXCEPT ![p] = <<>>]
        /\ pc' = [pc EXCEPT ![p] =
                     IF r.ok THEN "create"
                     ELSE IF r.exc = "ValueError" THEN "query" ELSE "error"]
        /\ UNCHANGED <<store, newScore, session, txn, seqVars>>

\* newScore = Score(token=token, name=name, score=score)
Create(p) ==
    /\ pc[p] = "create"
    /\ newScore' = [newScore EXCEPT ![p] =
                       Score(None, req[p].token, req[p].name, req[p].score)]
    /\ pc' = [pc EXCEPT ![p] = "add"]
    /\ UNCHANGED <<store, req, session, txn, status, resp, seqVars>>

\* db.session.add(newScore)
Add(p) ==
    /\ pc[p] = "add"
    /\ session' = [session EXCEPT ![p] = Append(@, newScore[p])]
    /\ pc' = [pc EXCEPT ![p] = "flush"]
    /\ UNCHANGED <<store, req, newScore, txn, status, resp, seqVars>>

\* db.session.commit(), first half: the pending object is inserted.
FlushStep(p) ==
    /\ pc[p] = "flush"
    /\ store' = Flush(store, Head(session[p]))
    /\ txn' = [txn EXCEPT ![p] = Len(store')]
    /\ session' = [session EXCEPT ![p] = Tail(@)]
    /\ pc' = [pc EXCEPT ![p] = "commit"]
    /\ UNCHANGED <<req, newScore, status, resp, seqVars>>

\* db.session.commit(), second half: the transaction commits; add_new_entry
\* returns and newScore goes out of scope.
CommitStep(p) ==
    /\ pc[p] = "commit"
    /\ store' = Commit(store, txn[p])
    /\ txn' = [txn EXCEPT ![p] = 0]
    /\ newScore' = [newScore EXCEPT ![p] = None]
    /\ pc' = [pc EXCEPT ![p] = "query"]
    /\ UNCHANGED <<req, session, status, resp, seqVars>>

\* response = get_scores_for(token): one SELECT.
Query(p) ==
    /\ pc[p] = "query"
    /\ resp' = [resp EXCEPT ![p] = QueryByToken(store, req[p].token)]
    /\ pc' = [pc EXCEPT ![p] = "done"]
    /\ UNCHANGED <<store, req, newScore, session, txn, status, seqVars>>

\* return flask.jsonify(response), status_code; or the error page when an
\* exception left the handler.
Return(p) ==
    /\ pc[p] \in {"done", "error"}
    /\ pc' = [pc EXCEPT ![p] = "idle"]
    /\ req' = [req EXCEPT ![p] = None]
    /\ UNCHANGED <<store, newScore, session, txn, status, resp, seqVars>>

NextConc ==
    \/ \E p \in Procs, t \in Tokens : StartGet(p, t)
    \/ \E p \in Procs, t \in Tokens, d \in ConcBodies : StartPost(p, t, d)
    \/ \E p \in Procs : Create(p)
    \/ \E p \in Procs : Add(p)
    \/ \E p \in Procs : FlushStep(p)
    \/ \E p \in Procs : CommitStep(p)
    \/ \E p \in Procs : Query(p)
    \/ \E p \in Procs : Return(p)

SpecConc == Init /\ [][NextConc]_vars

\* ---------------------------------------------------------- properties

HasBoth(d) == "name" \in DOMAIN d /\ "score" \in DOMAIN d

\* The last request was a POST whose score int() accepted.
PostAccepted ==
    last.op = "POST" /\ HasBoth(last.data) /\ PyInt(last.data.score).ok

\* The last request was a POST whose score int() refused.
PostRefused ==
    last.op = "POST" /\ HasBoth(last.data) /\ ~PyInt(last.data.score).ok

\* The last request called add_new_entry.
Wrote == PostAccepted \/ last.op = "db-add"

Range(f) == {f[i] : i \in DOMAIN f}

IsPrefix(a, b) == Len(a) <= Len(b) /\ SubSeq(b, 1, Len(a)) = a

IdsDistinct(st) ==
    \A i, j \in DOMAIN st : st[i].id = st[j].id => i = j

C2_AppendedLastInCallOrder ==
    /\ Wrote =>
          LET l == get_scores_for(last.token)
          IN  /\ l # <<>>
              /\ l[Len(l)] = [name |-> last.data.name,
                              score |-> PyInt(last.data.score).val]
    /\ \A t \in Tokens :
          /\ Len(get_scores_for(t)) = Len(calls[t])
          /\ get_scores_for(t) = calls[t]

C2_Witness ==
    /\ Wrote
    /\ Len(calls[last.token]) = 2
    /\ calls[last.token][1] # calls[last.token][2]
    /\ get_scores_for(last.token) = calls[last.token]

\* C3: an append for one token leaves the list of every other token as it
\* was, and get_scores_for(t) holds exactly the rows whose token is t.
C3_TokenIsolation ==
    /\ Wrote =>
          \A t2 \in Tokens \ {last.token} :
              ScoresIn(store, t2) = ScoresIn(pre, t2)
    /\ \A t \in Tokens :
          LET l == get_scores_for(t)
              mine == {i \in DOMAIN store : store[i].token = t}
          IN  /\ Len(l) = Cardinality(mine)
              /\ \A k \in DOMAIN l : \E i \in mine : Entry(store[i]) = l[k]

C3_Witness ==
    /\ Wrote
    /\ \E t2 \in Tokens \ {last.token} : ScoresIn(pre, t2) # <<>>
    /\ Len(get_scores_for(last.token)) < Len(store)

\* C4: a GET is answered 200 with the current list of its token as JSON; for
\* a token never written that is the empty list, still with 200.
C4_GetReturnsCurrentList ==
    last.op = "GET" =>
        /\ last.status = 200
        /\ last.json
        /\ last.exc = "none"
        /\ last.body = calls[last.token]
        /\ last.body = ScoresIn(store, last.token)
        /\ calls[last.token] = <<>> => last.body = <<>>

C4_Witness ==
    /\ last.op = "GET"
    /\ calls[last.token] = <<>>
    /\ last.body = <<>>
    /\ last.status = 200
    /\ store # <<>>

\* C5: a POST whose score int() accepts appends exactly one row
\* (token, name, int(score)), is answered 200, and its body is the list read
\* after the append, ending with the record just written.
C5_PostAppendsThenReads ==
    PostAccepted =>
        /\ Len(store) = Len(pre) + 1
        /\ IsPrefix(pre, store)
        /\ LET row == store[Len(store)]
           IN  /\ row.token = last.token
               /\ row.name = last.data.name
               /\ row.score = PyInt(last.data.score).val
               /\ row.committed
        /\ last.status = 200
        /\ last.json
        /\ last.body = ScoresIn(store, last.token)
        /\ last.body # <<>>
        /\ last.body[Len(last.body)] =
              [name |-> last.data.name, score |-> PyInt(last.data.score).val]

C5_Witness ==
    /\ last.op = "POST"
    /\ HasBoth(last.data)
    /\ last.data.score = JFloat(-55)
    /\ store[Len(store)].score = -5
    /\ Len(last.body) = 2
    /\ last.status = 200

\* C6: the table is append-only with stable ids: the ids are pairwise
\* distinct, and a request changes the table only by adding rows after the
\* ones it found, which keep their id, token, name and score.
C6_AppendOnlyStableIds ==
    /\ IdsDistinct(store)
    /\ IsPrefix(pre, store)
    /\ last.op = "GET" => store = pre

C6_Witness ==
    /\ Len(store) = 2
    /\ Len(pre) = 1
    /\ store[1].token = store[2].token
    /\ store[1].name = store[2].name
    /\ store[1].id # store[2].id

\* C7: whenever int() refuses the score of a POST, whatever its JSON type,
\* the handler answers 500 with the JSON list of the token, appends nothing
\* and still runs the read; no such request ends in an unhandled exception.
C7_EveryCoercionFailureRecovered ==
    PostRefused =>
        /\ last.status = 500
        /\ last.json
        /\ last.exc = "none"
        /\ store = pre
        /\ last.body = ScoresIn(pre, last.token)

\* C9: a GET leaves the table as it was, and a GET of a token answers with
\* the status and body of the GET before it when no write succeeded in
\* between.
C9_ReadsIdempotent ==
    /\ [](last.op = "GET" => store = pre)
    /\ [][\A t \in Tokens :
             (lastGet[t].seen /\ lastGet'[t].seen) =>
                 /\ lastGet'[t].status = lastGet[t].status
                 /\ lastGet'[t].body = lastGet[t].body
         ]_vars

\* A second GET of a token with rows, a refused POST behind it.
C9_Witness ==
    /\ last.op = "GET"
    /\ lastGet[last.token].again
    /\ last.body # <<>>
    /\ \E t \in Tokens \ {last.token} : lastGet[t].again

\* C10: db-add with a token, a name and an integer score appends exactly one
\* row with those fields and then ends normally, without an error after the
\* commit.
C10_DbAddCompletes ==
    last.op = "db-add" =>
        /\ Len(store) = Len(pre) + 1
        /\ Entry(store[Len(store)]) =
              [name |-> last.data.name, score |-> last.data.score.n]
        /\ last.exc = "none"
        /\ last.status = 0

\* C8: with requests interleaved at the statements of add_new_entry and
\* get_scores_for, all rows have distinct ids, every list a query returned
\* holds committed rows only, and every such list orders its rows as the
\* table does, so any two lists agree on the order of the rows they share.
C8_ConcurrentAppendsConsistent ==
    /\ IdsDistinct(store)
    /\ \A p \in Procs :
          /\ \A k \in DOMAIN resp[p] :
                \E i \in DOMAIN store :
                    store[i] = resp[p][k] /\ store[i].committed
          /\ resp[p] = SelectSeq(store, LAMBDA r : r \in Range(resp[p]))
    /\ \A p, q \in Procs :
          SelectSeq(resp[p], LAMBDA r : r \in Range(resp[q]))
              = SelectSeq(resp[q], LAMBDA r : r \in Range(resp[p]))

\* A row flushed first is still uncommitted while a query has already
\* returned a row flushed after it.
C8_Witness ==
    /\ Len(store) = 2
    /\ ~store[1].committed
    /\ store[2].committed
    /\ store[1].token = store[2].token
    /\ \E q \in Procs : pc[q] = "done" /\ resp[q] = <<store[2]>>

====
